---- MODULE Spec2Model ----
(***************************************************************************)
(* Model of rqalpha's FutureAccount                                        *)
(* (rqalpha/mod/rqalpha_mod_sys_accounts/account_model/future_account.py). *)
(*                                                                         *)
(* Cash amounts and margin rates are integers: a rate r stands for         *)
(* r * 1e-6 and a cash amount c for c * 1e-6 currency units, so that the   *)
(* 1e-6 tolerance of set_state is one unit (RateTolerance).                *)
(***************************************************************************)
EXTENDS Integers, Sequences, FiniteSets, TLC

\* ------------------------------------------------------------------ bounds
MaxBucket == 5          \* largest bucket quantity drawn for order()
MaxDelta == 10          \* largest |quantity| passed to order()
MaxOrders == 2          \* orders the broker accepts in one run
MaxTrades == 2          \* trades (exec ids) the broker makes in one run
MaxQuantity == 2        \* quantity of every order of an event-driven run
MaxEvents == 4          \* events, calls and oracle changes in one run
MaxBatch == 2           \* largest number of trades in a fast_forward batch
MaxOrderQuantity == 10  \* largest order quantity drawn for an order update
MaxDrop == 5            \* largest adverse price move per contract

\* --------------------------------------------------------------- constants
Instruments == {"A", "B"}
OrderIds == 1..MaxOrders
ExecIds == 1..MaxTrades
PriceMoves == {-MaxDrop, 0, 1}
Rates == {2, 3, 5}      \* instrument.margin_rate values, in units of 1e-6
RateTolerance == 1      \* the 1e-6 of set_state, in the same units
ContractMultiplier == 1 \* instrument.contract_multiplier
MarginMultiplier == 1   \* env.config.base.margin_multiplier
FrozenPrice == 1        \* order.frozen_price, and the price margin is held at
CommissionPerLot == 1   \* transaction cost oracle: cost per contract
StartCash == 1          \* total_cash the account is constructed with
ThisAccount == "future"  \* self, as event.account names it
OtherAccount == "stock" \* another account of the portfolio
NoCall == [kind |-> "none"]
None == [status |-> "NONE"]
NoTrade == [exec_id |-> 0]
NoState == [kind |-> "none"]

VARIABLES
    positions,          \* self._positions: order_book_id -> position
    total_cash,         \* self._total_cash
    frozen_cash,        \* self._frozen_cash
    backward_trade_set, \* self._backward_trade_set (the replay guard)
    forced_liquidation, \* FutureAccount.forced_liquidation
    de_listed,          \* instrument oracle: the de-listed instruments
    margin_rate,        \* instrument oracle: order_book_id -> margin rate
    orders,             \* the broker's orders: order id -> order
    trades,             \* the broker's trades: exec id -> trade
    applied,            \* history: exec id -> times applied to the ledger
    period,             \* history: the same, since the last settlement (or restore)
    snapshot,           \* the last value get_state() returned
    event,              \* history: the last event or call dispatched
    dispatched,         \* history: how many events, calls and oracle changes so far
    order_call,         \* arguments of the last order() call
    order_ret           \* list returned by the last order() call

account_vars == <<positions, total_cash, frozen_cash, backward_trade_set>>

oracle_vars == <<forced_liquidation, de_listed, margin_rate>>

broker_vars == <<orders, trades>>

order_vars == <<order_call, order_ret>>

history_vars == <<applied, period>>

vars == <<account_vars, oracle_vars, broker_vars, history_vars, snapshot, event,
          dispatched, order_vars>>

\* ---------------------------------------------------------------- helpers
min(a, b) == IF a < b THEN a ELSE b

abs(a) == IF a < 0 THEN -a ELSE a

\* ------------------------------------------------------- Position (ledger)
\* A position freshly created by Positions.get_or_create / __missing__.
NewPosition ==
    [buy_old_quantity |-> 0, buy_today_quantity |-> 0,
     sell_old_quantity |-> 0, sell_today_quantity |-> 0,
     price_gain |-> 0]

buy_quantity(position) ==
    position.buy_old_quantity + position.buy_today_quantity

sell_quantity(position) ==
    position.sell_old_quantity + position.sell_today_quantity

\* self._positions.get_or_create(order_book_id), also self.positions[id]
get_or_create(ps, order_book_id) ==
    IF order_book_id \in DOMAIN ps
        THEN ps
        ELSE [i \in DOMAIN ps \cup {order_book_id} |->
                IF i = order_book_id THEN NewPosition ELSE ps[i]]

\* ------------------------------------------------------- Order Decomposer
\* api_future.order(order_book_id, amount, side, position_effect, style):
\* the child order request
order_req(order_book_id, amount, side, position_effect, style) ==
    [order_book_id |-> order_book_id, quantity |-> amount, side |-> side,
     position_effect |-> position_effect, style |-> style]

\* BuyLegs with the open leg taking the quantity left before the close-today
\* leg instead of after it.
BuyLegs_OpenBeforeToday(position, order_book_id, quantity, style) ==
    LET sell_old_quantity == position.sell_old_quantity
        sell_today_quantity == position.sell_today_quantity
        orders1 == IF sell_old_quantity > 0
                     THEN <<order_req(order_book_id, min(quantity, sell_old_quantity),
                                      "BUY", "CLOSE", style)>>
                     ELSE <<>>
        quantity1 == IF sell_old_quantity > 0
                       THEN quantity - sell_old_quantity ELSE quantity
    IN  IF quantity1 <= 0 THEN orders1
        ELSE
        LET orders2 == IF sell_today_quantity > 0
                         THEN Append(orders1,
                                order_req(order_book_id, min(quantity1, sell_today_quantity),
                                          "BUY", "CLOSE_TODAY", style))
                         ELSE orders1
            quantity2 == IF sell_today_quantity > 0
                           THEN quantity1 - sell_today_quantity ELSE quantity1
        IN  IF quantity2 <= 0 THEN orders2
            ELSE Append(orders2, order_req(order_book_id, quantity1, "BUY", "OPEN", style))

\* lines 82-116: the branch quantity > 0
BuyLegs(position, order_book_id, quantity, style) ==
    LET sell_old_quantity == position.sell_old_quantity
        sell_today_quantity == position.sell_today_quantity
        orders1 == IF sell_old_quantity > 0
                     THEN <<order_req(order_book_id, min(quantity, sell_old_quantity),
                                      "BUY", "CLOSE", style)>>
                     ELSE <<>>
        quantity1 == IF sell_old_quantity > 0
                       THEN quantity - sell_old_quantity ELSE quantity
    IN  IF quantity1 <= 0 THEN orders1
        ELSE
        LET orders2 == IF sell_today_quantity > 0
                         THEN Append(orders1,
                                order_req(order_book_id, min(quantity1, sell_today_quantity),
                                          "BUY", "CLOSE_TODAY", style))
                         ELSE orders1
            quantity2 == IF sell_today_quantity > 0
                           THEN quantity1 - sell_today_quantity ELSE quantity1
        IN  IF quantity2 <= 0 THEN orders2
            ELSE Append(orders2, order_req(order_book_id, quantity2, "BUY", "OPEN", style))

\* SellLegs closing today's bucket before the old one.
SellLegs_TodayFirst(position, order_book_id, quantity0, style) ==
    LET quantity == quantity0 * (-1)
        buy_old_quantity == position.buy_old_quantity
        buy_today_quantity == position.buy_today_quantity
        orders1 == IF buy_today_quantity > 0
                     THEN <<order_req(order_book_id, min(quantity, buy_today_quantity),
                                      "SELL", "CLOSE_TODAY", style)>>
                     ELSE <<>>
        quantity1 == IF buy_today_quantity > 0
                       THEN quantity - min(quantity, buy_today_quantity) ELSE quantity
    IN  IF quantity1 <= 0 THEN orders1
        ELSE
        LET orders2 == IF buy_old_quantity > 0
                         THEN Append(orders1,
                                order_req(order_book_id, min(quantity1, buy_old_quantity),
                                          "SELL", "CLOSE", style))
                         ELSE orders1
            quantity2 == IF buy_old_quantity > 0
                           THEN quantity1 - buy_old_quantity ELSE quantity1
        IN  IF quantity2 <= 0 THEN orders2
            ELSE Append(orders2, order_req(order_book_id, quantity2, "SELL", "OPEN", style))

\* lines 117-141: the branch quantity <= 0; quantity0 is the signed quantity
SellLegs(position, order_book_id, quantity0, style) ==
    LET quantity == quantity0 * (-1)
        buy_old_quantity == position.buy_old_quantity
        buy_today_quantity == position.buy_today_quantity
        orders1 == IF buy_old_quantity > 0
                     THEN <<order_req(order_book_id, min(quantity, buy_old_quantity),
                                      "SELL", "CLOSE", style)>>
                     ELSE <<>>
        quantity1 == IF buy_old_quantity > 0
                       THEN quantity - min(quantity, buy_old_quantity) ELSE quantity
    IN  IF quantity1 <= 0 THEN orders1
        ELSE
        LET orders2 == IF buy_today_quantity > 0
                         THEN Append(orders1,
                                order_req(order_book_id, min(quantity1, buy_today_quantity),
                                          "SELL", "CLOSE_TODAY", style))
                         ELSE orders1
            quantity2 == IF buy_today_quantity > 0
                           THEN quantity1 - buy_today_quantity ELSE quantity1
        IN  IF quantity2 <= 0 THEN orders2
            ELSE Append(orders2, order_req(order_book_id, quantity2, "SELL", "OPEN", style))

\* TargetDelta subtracting both sides instead of the net position.
TargetDelta_Gross(position, quantity) ==
    quantity - position.buy_quantity - position.sell_quantity

\* lines 78-80: the delta of an order_to (target) call
TargetDelta(position, quantity) ==
    quantity - position.buy_quantity + position.sell_quantity

\* FutureAccount.order, lines 76-141, on the position it reads
order(position, order_book_id, quantity0, style, target) ==
    LET view == [buy_quantity |-> buy_quantity(position),
                 sell_quantity |-> sell_quantity(position)]
        quantity == IF target THEN TargetDelta(view, quantity0) ELSE quantity0
    IN  IF quantity > 0
          THEN BuyLegs(position, order_book_id, quantity, style)
          ELSE SellLegs(position, order_book_id, quantity, style)

\* --------------------------------------------- Position Ledger (continued)
RECURSIVE SumF(_)
\* sum(...) over the values of a finite map
SumF(f) ==
    IF DOMAIN f = {} THEN 0
    ELSE LET i == CHOOSE x \in DOMAIN f : TRUE
         IN  f[i] + SumF([j \in DOMAIN f \ {i} |-> f[j]])

\* position.margin at the resolved margin rate
position_margin(position, rate) ==
    (buy_quantity(position) + sell_quantity(position))
        * ContractMultiplier * FrozenPrice * rate * MarginMultiplier

\* position.holding_pnl: price_gain is last price minus the cost basis
position_holding_pnl(position) ==
    position.price_gain * (buy_quantity(position) - sell_quantity(position))
        * ContractMultiplier

\* position.apply_trade(trade): the position after the trade and the realized
\* cash delta (zero for an open, proceeds minus cost basis for a close)
position_apply_trade(position, trade) ==
    LET q == trade.last_quantity
        gain == q * position.price_gain * ContractMultiplier
    IN  CASE trade.position_effect = "OPEN" /\ trade.side = "BUY" ->
               [position |-> [position EXCEPT !.buy_today_quantity = @ + q],
                delta_cash |-> 0]
          [] trade.position_effect = "OPEN" /\ trade.side = "SELL" ->
               [position |-> [position EXCEPT !.sell_today_quantity = @ + q],
                delta_cash |-> 0]
          [] trade.position_effect = "CLOSE" /\ trade.side = "BUY" ->
               [position |-> [position EXCEPT !.sell_old_quantity = @ - q],
                delta_cash |-> -gain]
          [] trade.position_effect = "CLOSE_TODAY" /\ trade.side = "BUY" ->
               [position |-> [position EXCEPT !.sell_today_quantity = @ - q],
                delta_cash |-> -gain]
          [] trade.position_effect = "CLOSE" /\ trade.side = "SELL" ->
               [position |-> [position EXCEPT !.buy_old_quantity = @ - q],
                delta_cash |-> gain]
          [] trade.position_effect = "CLOSE_TODAY" /\ trade.side = "SELL" ->
               [position |-> [position EXCEPT !.buy_today_quantity = @ - q],
                delta_cash |-> gain]

\* position.apply_settlement(): today -> old, pnl baseline reset
apply_settlement(position) ==
    [position EXCEPT !.buy_old_quantity = @ + position.buy_today_quantity,
                     !.buy_today_quantity = 0,
                     !.sell_old_quantity = @ + position.sell_today_quantity,
                     !.sell_today_quantity = 0,
                     !.price_gain = 0]

\* position.update_last_price(): the new last price against the cost basis
update_last_price(position, gain) ==
    [position EXCEPT !.price_gain = gain]

\* position.is_de_listed()
is_de_listed(order_book_id, delisted) == order_book_id \in delisted

\* The bucket a trade takes from holds enough (all bucket quantities >= 0).
Covered(ps, trade) ==
    IF trade.position_effect = "OPEN" THEN TRUE
    ELSE IF trade.order_book_id \notin DOMAIN ps THEN FALSE
    ELSE LET position == ps[trade.order_book_id]
             q == trade.last_quantity
         IN  CASE trade.position_effect = "CLOSE" /\ trade.side = "BUY" ->
                    position.sell_old_quantity >= q
               [] trade.position_effect = "CLOSE_TODAY" /\ trade.side = "BUY" ->
                    position.sell_today_quantity >= q
               [] trade.position_effect = "CLOSE" /\ trade.side = "SELL" ->
                    position.buy_old_quantity >= q
               [] trade.position_effect = "CLOSE_TODAY" /\ trade.side = "SELL" ->
                    position.buy_today_quantity >= q

\* ------------------------------------------------------------------ Order
is_active(o) == o.status = "ACTIVE"

unfilled_quantity(o) == o.quantity - o.filled_quantity

\* --------------------------------------------------- Frozen Cash Tracker
\* margin_of(order_book_id, quantity, price), lines 29-33
margin_of(order_book_id, quantity, price, rates) ==
    quantity * ContractMultiplier * price * rates[order_book_id] * MarginMultiplier

\* env.get_order_transaction_cost(FUTURE, order): linear in the quantity
get_order_transaction_cost(o) == CommissionPerLot * o.quantity

\* _frozen_cash_of_order, lines 172-179
frozen_cash_of_order(o, rates) ==
    LET order_cost == IF o.position_effect = "OPEN"
                        THEN margin_of(o.order_book_id, o.quantity, FrozenPrice, rates)
                        ELSE 0
    IN  order_cost + get_order_transaction_cost(o)

\* a / b * c of the source, exact here because every reservation is a
\* multiple of the order quantity
Fraction(a, b, c) == (a * c) \div b

\* on_order_pending_new reserving the estimated transaction cost only.
on_order_pending_new_CostOnly(frozen, o, rates) ==
    frozen + get_order_transaction_cost(o)

\* _on_order_pending_new, line 261: the new frozen_cash
on_order_pending_new(frozen, o, rates) ==
    frozen + frozen_cash_of_order(o, rates)

\* on_order_unsolicited_update releasing the filled share instead of the
\* unfilled one.
on_order_unsolicited_update_FilledShare(frozen, o, rates) ==
    IF o.filled_quantity # 0
      THEN frozen - Fraction(o.filled_quantity, o.quantity,
                             frozen_cash_of_order(o, rates))
      ELSE frozen - frozen_cash_of_order(o, rates)

\* _on_order_unsolicited_update, lines 266-270: the new frozen_cash
on_order_unsolicited_update(frozen, o, rates) ==
    IF o.filled_quantity # 0
      THEN frozen - Fraction(unfilled_quantity(o), o.quantity,
                             frozen_cash_of_order(o, rates))
      ELSE frozen - frozen_cash_of_order(o, rates)

\* ------------------------------------------- Trade Applier / Replay Guard
\* The account fields the handlers below rewrite, as one record.
Account ==
    [positions |-> positions, total_cash |-> total_cash,
     frozen_cash |-> frozen_cash, backward_trade_set |-> backward_trade_set,
     applied |-> applied, period |-> period]

\* apply_trade releasing the order's frozen cash before it looks at the
\* replay guard.
apply_trade_ReleaseFirst(a, trade, o, rates) ==
    LET frozen ==
            IF o # None
              THEN IF trade.last_quantity # o.quantity
                     THEN a.frozen_cash
                            - Fraction(trade.last_quantity, o.quantity,
                                       frozen_cash_of_order(o, rates))
                     ELSE a.frozen_cash - frozen_cash_of_order(o, rates)
              ELSE a.frozen_cash
    IN  IF trade.exec_id \in a.backward_trade_set
          THEN [a EXCEPT !.frozen_cash = frozen]
          ELSE
          LET order_book_id == trade.order_book_id
              ps == get_or_create(a.positions, order_book_id)
              r == position_apply_trade(ps[order_book_id], trade)
          IN  [positions |-> [ps EXCEPT ![order_book_id] = r.position],
               total_cash |-> a.total_cash - trade.transaction_cost + r.delta_cash,
               frozen_cash |-> frozen,
               backward_trade_set |-> a.backward_trade_set \cup {trade.exec_id},
               applied |-> [a.applied EXCEPT ![trade.exec_id] = @ + 1],
               period |-> [a.period EXCEPT ![trade.exec_id] = @ + 1]]

\* apply_trade without the replay guard check.
apply_trade_NoGuard(a, trade, o, rates) ==
    LET order_book_id == trade.order_book_id
        ps == get_or_create(a.positions, order_book_id)
        r == position_apply_trade(ps[order_book_id], trade)
        frozen ==
            IF o # None
              THEN IF trade.last_quantity # o.quantity
                     THEN a.frozen_cash
                            - Fraction(trade.last_quantity, o.quantity,
                                       frozen_cash_of_order(o, rates))
                     ELSE a.frozen_cash - frozen_cash_of_order(o, rates)
              ELSE a.frozen_cash
    IN  [positions |-> [ps EXCEPT ![order_book_id] = r.position],
         total_cash |-> a.total_cash - trade.transaction_cost + r.delta_cash,
         frozen_cash |-> frozen,
         backward_trade_set |-> a.backward_trade_set \cup {trade.exec_id},
         applied |-> [a.applied EXCEPT ![trade.exec_id] = @ + 1],
         period |-> [a.period EXCEPT ![trade.exec_id] = @ + 1]]

\* apply_trade that does not record the exec id it applies.
apply_trade_GuardNotRecorded(a, trade, o, rates) ==
    IF trade.exec_id \in a.backward_trade_set THEN a
    ELSE
    LET order_book_id == trade.order_book_id
        ps == get_or_create(a.positions, order_book_id)
        r == position_apply_trade(ps[order_book_id], trade)
        frozen ==
            IF o # None
              THEN IF trade.last_quantity # o.quantity
                     THEN a.frozen_cash
                            - Fraction(trade.last_quantity, o.quantity,
                                       frozen_cash_of_order(o, rates))
                     ELSE a.frozen_cash - frozen_cash_of_order(o, rates)
              ELSE a.frozen_cash
    IN  [positions |-> [ps EXCEPT ![order_book_id] = r.position],
         total_cash |-> a.total_cash - trade.transaction_cost + r.delta_cash,
         frozen_cash |-> frozen,
         backward_trade_set |-> a.backward_trade_set,
         applied |-> [a.applied EXCEPT ![trade.exec_id] = @ + 1],
         period |-> [a.period EXCEPT ![trade.exec_id] = @ + 1]]

\* apply_trade releasing the whole reservation on every fill, partial or not.
apply_trade_FullRelease(a, trade, o, rates) ==
    IF trade.exec_id \in a.backward_trade_set THEN a
    ELSE
    LET order_book_id == trade.order_book_id
        ps == get_or_create(a.positions, order_book_id)
        r == position_apply_trade(ps[order_book_id], trade)
        frozen ==
            IF o # None
              THEN a.frozen_cash - frozen_cash_of_order(o, rates)
              ELSE a.frozen_cash
    IN  [positions |-> [ps EXCEPT ![order_book_id] = r.position],
         total_cash |-> a.total_cash - trade.transaction_cost + r.delta_cash,
         frozen_cash |-> frozen,
         backward_trade_set |-> a.backward_trade_set \cup {trade.exec_id},
         applied |-> [a.applied EXCEPT ![trade.exec_id] = @ + 1],
         period |-> [a.period EXCEPT ![trade.exec_id] = @ + 1]]

\* _apply_trade(trade, order), lines 277-291; order is None when not given
apply_trade(a, trade, o, rates) ==
    IF trade.exec_id \in a.backward_trade_set THEN a
    ELSE
    LET order_book_id == trade.order_book_id
        ps == get_or_create(a.positions, order_book_id)
        r == position_apply_trade(ps[order_book_id], trade)
        frozen ==
            IF o # None
              THEN IF trade.last_quantity # o.quantity
                     THEN a.frozen_cash
                            - Fraction(trade.last_quantity, o.quantity,
                                       frozen_cash_of_order(o, rates))
                     ELSE a.frozen_cash - frozen_cash_of_order(o, rates)
              ELSE a.frozen_cash
    IN  [positions |-> [ps EXCEPT ![order_book_id] = r.position],
         total_cash |-> a.total_cash - trade.transaction_cost + r.delta_cash,
         frozen_cash |-> frozen,
         backward_trade_set |-> a.backward_trade_set \cup {trade.exec_id},
         applied |-> [a.applied EXCEPT ![trade.exec_id] = @ + 1],
         period |-> [a.period EXCEPT ![trade.exec_id] = @ + 1]]

\* -------------------------------------------------------------- Cold replay
RECURSIVE fast_forward_opens_ArrivalOrder(_, _, _, _)
\* fast_forward_opens applying every trade where it arrives, closes included.
fast_forward_opens_ArrivalOrder(a, trade_list, close_trades, rates) ==
    IF trade_list = <<>> THEN [account |-> a, close_trades |-> close_trades]
    ELSE LET trade == Head(trade_list)
         IN  IF trade.exec_id \in a.backward_trade_set
               THEN fast_forward_opens_ArrivalOrder(a, Tail(trade_list), close_trades, rates)
             ELSE fast_forward_opens_ArrivalOrder(apply_trade(a, trade, None, rates),
                                                  Tail(trade_list), close_trades, rates)

RECURSIVE fast_forward_opens(_, _, _, _)
\* fast_forward, lines 60-68: the first loop; returns the account and the
\* close_trades list
fast_forward_opens(a, trade_list, close_trades, rates) ==
    IF trade_list = <<>> THEN [account |-> a, close_trades |-> close_trades]
    ELSE LET trade == Head(trade_list)
         IN  IF trade.exec_id \in a.backward_trade_set
               THEN fast_forward_opens(a, Tail(trade_list), close_trades, rates)
             ELSE IF trade.position_effect = "OPEN"
               THEN fast_forward_opens(apply_trade(a, trade, None, rates),
                                       Tail(trade_list), close_trades, rates)
             ELSE fast_forward_opens(a, Tail(trade_list),
                                     Append(close_trades, trade), rates)

RECURSIVE fast_forward_closes(_, _, _)
\* fast_forward, lines 70-71: the second loop
fast_forward_closes(a, close_trades, rates) ==
    IF close_trades = <<>> THEN a
    ELSE fast_forward_closes(apply_trade(a, Head(close_trades), None, rates),
                             Tail(close_trades), rates)

\* fast_forward, lines 59-71: the account after each iteration of the first
\* loop and then of the second one
fast_forward_steps(a, trade_list, rates) ==
    LET r == fast_forward_opens(a, trade_list, <<>>, rates)
    IN  [k \in 1..Len(trade_list) |->
            fast_forward_opens(a, SubSeq(trade_list, 1, k), <<>>, rates).account]
        \o [k \in 1..Len(r.close_trades) |->
            fast_forward_closes(r.account, SubSeq(r.close_trades, 1, k), rates)]

\* fast_forward recomputing frozen_cash only inside `if trades:`.
fast_forward_FrozenWithTradesOnly(a, order_list, trade_list, rates) ==
    LET active == {k \in DOMAIN order_list : is_active(order_list[k])}
    IN  IF trade_list # <<>>
          THEN LET r == fast_forward_opens(a, trade_list, <<>>, rates)
                   replayed == fast_forward_closes(r.account, r.close_trades, rates)
               IN  [replayed EXCEPT !.frozen_cash =
                      SumF([k \in active |-> frozen_cash_of_order(order_list[k], rates)])]
          ELSE a

\* fast_forward(orders, trades), lines 57-74; trades None or [] is <<>>
fast_forward(a, order_list, trade_list, rates) ==
    LET replayed ==
            IF trade_list # <<>>
              THEN LET r == fast_forward_opens(a, trade_list, <<>>, rates)
                   IN  fast_forward_closes(r.account, r.close_trades, rates)
              ELSE a
        active == {k \in DOMAIN order_list : is_active(order_list[k])}
    IN  [replayed EXCEPT !.frozen_cash =
            SumF([k \in active |-> frozen_cash_of_order(order_list[k], rates)])]

\* ------------------------------------------------------- State export/restore
RECURSIVE list_of(_)
\* list(a_set): its elements in some order, each once
list_of(S) ==
    IF S = {} THEN <<>>
    ELSE LET x == CHOOSE y \in S : \A z \in S : y <= z
         IN  <<x>> \o list_of(S \ {x})

\* set(a_list)
set_of(l) == {l[k] : k \in DOMAIN l}

\* position.get_state(): the position's fields and its resolved margin rate
position_get_state(position, rate) ==
    [buy_old_quantity |-> position.buy_old_quantity,
     buy_today_quantity |-> position.buy_today_quantity,
     sell_old_quantity |-> position.sell_old_quantity,
     sell_today_quantity |-> position.sell_today_quantity,
     price_gain |-> position.price_gain,
     margin_rate |-> rate]

\* position.set_state(v)
position_set_state(v) ==
    [buy_old_quantity |-> v.buy_old_quantity,
     buy_today_quantity |-> v.buy_today_quantity,
     sell_old_quantity |-> v.sell_old_quantity,
     sell_today_quantity |-> v.sell_today_quantity,
     price_gain |-> v.price_gain]

\* get_state, lines 143-152
get_state(a, rates) ==
    [kind |-> "state",
     positions |-> [i \in DOMAIN a.positions |->
                        position_get_state(a.positions[i], rates[i])],
     frozen_cash |-> a.frozen_cash,
     total_cash |-> a.total_cash,
     backward_trade_set |-> list_of(a.backward_trade_set)]

\* margin_changed with the rate difference taken the other way round.
margin_changed_Reversed(state, rates) ==
    SumF([i \in {j \in DOMAIN state.positions :
                    /\ "margin_rate" \in DOMAIN state.positions[j]
                    /\ abs(state.positions[j].margin_rate - rates[j]) > RateTolerance}
            |-> (position_margin(position_set_state(state.positions[i]), rates[i])
                   * (rates[i] - state.positions[i].margin_rate)) \div rates[i]])

\* set_state, lines 158-164: the margin_changed sum
margin_changed(state, rates) ==
    SumF([i \in {j \in DOMAIN state.positions :
                    /\ "margin_rate" \in DOMAIN state.positions[j]
                    /\ abs(state.positions[j].margin_rate - rates[j]) > RateTolerance}
            |-> (position_margin(position_set_state(state.positions[i]), rates[i])
                   * (state.positions[i].margin_rate - rates[i])) \div rates[i]])

\* set_state without self._positions.clear().
set_state_NoClear(a, state, rates) ==
    LET guard == set_of(state.backward_trade_set)
    IN  [positions |-> [i \in DOMAIN state.positions \cup DOMAIN a.positions |->
                            IF i \in DOMAIN state.positions
                              THEN position_set_state(state.positions[i])
                              ELSE a.positions[i]],
         total_cash |-> state.total_cash + margin_changed(state, rates),
         frozen_cash |-> state.frozen_cash,
         backward_trade_set |-> guard,
         applied |-> a.applied,
         period |-> [e \in DOMAIN a.period |-> IF e \in guard THEN 1 ELSE 0]]

\* set_state, lines 154-166
set_state(a, state, rates) ==
    LET guard == set_of(state.backward_trade_set)
    IN  [positions |-> [i \in DOMAIN state.positions |->
                            position_set_state(state.positions[i])],
         total_cash |-> state.total_cash + margin_changed(state, rates),
         frozen_cash |-> state.frozen_cash,
         backward_trade_set |-> guard,
         applied |-> a.applied,
         period |-> [e \in DOMAIN a.period |-> IF e \in guard THEN 1 ELSE 0]]

\* ------------------------------------------------------ account properties
\* margin, lines 187-191
margin(ps, rates) ==
    SumF([i \in DOMAIN ps |-> position_margin(ps[i], rates[i])])

\* holding_pnl, lines 216-220
holding_pnl(ps) ==
    SumF([i \in DOMAIN ps |-> position_holding_pnl(ps[i])])

\* total_value, lines 181-183
total_value(cash, ps, rates) == cash + margin(ps, rates) + holding_pnl(ps)

\* ------------------------------------------------------ Settlement Engine
\* settlement_roll without the de-listed branch.
settlement_roll_KeepDelisted(ps, delisted) ==
    LET keep == {i \in DOMAIN ps :
                    ~(buy_quantity(ps[i]) = 0 /\ sell_quantity(ps[i]) = 0)}
    IN  [i \in keep |-> apply_settlement(ps[i])]

\* lines 232-241: the positions kept by the roll, each rolled forward
settlement_roll(ps, delisted) ==
    LET keep == {i \in DOMAIN ps :
                    /\ ~(is_de_listed(i, delisted)
                         /\ buy_quantity(ps[i]) + sell_quantity(ps[i]) # 0)
                    /\ ~(buy_quantity(ps[i]) = 0 /\ sell_quantity(ps[i]) = 0)}
    IN  [i \in keep |-> apply_settlement(ps[i])]

\* settlement deriving total_cash from the margin and holding pnl of before
\* the roll.
settlement_StaleCash(a, rates, delisted, liquidate) ==
    LET tv == total_value(a.total_cash, a.positions, rates)
        rolled == settlement_roll(a.positions, delisted)
        cash == tv - margin(a.positions, rates) - holding_pnl(a.positions)
        wipeout == tv <= 0 /\ liquidate
    IN  [positions |-> IF wipeout THEN [i \in {} |-> NewPosition] ELSE rolled,
         total_cash |-> IF wipeout THEN 0 ELSE cash,
         frozen_cash |-> a.frozen_cash,
         backward_trade_set |-> {},
         applied |-> a.applied,
         period |-> [e \in DOMAIN a.period |-> 0]]

\* settlement liquidating whenever total_value <= 0, forced or not.
settlement_AlwaysForced(a, rates, delisted, liquidate) ==
    LET tv == total_value(a.total_cash, a.positions, rates)
        rolled == settlement_roll(a.positions, delisted)
        cash == tv - margin(rolled, rates) - holding_pnl(rolled)
        wipeout == tv <= 0
    IN  [positions |-> IF wipeout THEN [i \in {} |-> NewPosition] ELSE rolled,
         total_cash |-> IF wipeout THEN 0 ELSE cash,
         frozen_cash |-> a.frozen_cash,
         backward_trade_set |-> {},
         applied |-> a.applied,
         period |-> [e \in DOMAIN a.period |-> 0]]

\* settlement returning from the wipeout branch before the guard is cleared.
settlement_GuardKeptOnWipeout(a, rates, delisted, liquidate) ==
    LET tv == total_value(a.total_cash, a.positions, rates)
        rolled == settlement_roll(a.positions, delisted)
        cash == tv - margin(rolled, rates) - holding_pnl(rolled)
        wipeout == tv <= 0 /\ liquidate
    IN  [positions |-> IF wipeout THEN [i \in {} |-> NewPosition] ELSE rolled,
         total_cash |-> IF wipeout THEN 0 ELSE cash,
         frozen_cash |-> a.frozen_cash,
         backward_trade_set |-> IF wipeout THEN a.backward_trade_set ELSE {},
         applied |-> a.applied,
         period |-> [e \in DOMAIN a.period |-> 0]]

\* _settlement, lines 229-251
settlement(a, rates, delisted, liquidate) ==
    LET tv == total_value(a.total_cash, a.positions, rates)
        rolled == settlement_roll(a.positions, delisted)
        cash == tv - margin(rolled, rates) - holding_pnl(rolled)
        wipeout == tv <= 0 /\ liquidate
    IN  [positions |-> IF wipeout THEN [i \in {} |-> NewPosition] ELSE rolled,
         total_cash |-> IF wipeout THEN 0 ELSE cash,
         frozen_cash |-> a.frozen_cash,
         backward_trade_set |-> {},
         applied |-> a.applied,
         period |-> [e \in DOMAIN a.period |-> 0]]

\* ------------------------------------------------------ the account filter
\* for_this_account handling the event whatever account it is addressed to.
for_this_account_Unfiltered(account, a, handled) == handled

\* `if self != event.account: return`, lines 258-259, 264-265 and 273-274:
\* the account is left as it is (a) unless the event is addressed to it
for_this_account(account, a, handled) ==
    IF ThisAccount # account THEN a ELSE handled

\* ----------------------------------------------------------- the handlers
\* One more event, call or oracle change happens.
CanDispatch == dispatched < MaxEvents

Dispatch(e) ==
    /\ dispatched' = dispatched + 1
    /\ event' = e

SetAccount(a) ==
    /\ positions' = a.positions
    /\ total_cash' = a.total_cash
    /\ frozen_cash' = a.frozen_cash
    /\ backward_trade_set' = a.backward_trade_set
    /\ applied' = a.applied
    /\ period' = a.period

\* The state BaseAccount.__init__ leaves, and the collaborators' state.
InitRest ==
    /\ total_cash = StartCash
    /\ frozen_cash = 0
    /\ backward_trade_set = {}
    /\ forced_liquidation \in BOOLEAN
    /\ de_listed = {}
    /\ margin_rate = [i \in Instruments |-> 2]
    /\ orders = [o \in OrderIds |-> None]
    /\ trades = [e \in ExecIds |-> NoTrade]
    /\ applied = [e \in ExecIds |-> 0]
    /\ period = [e \in ExecIds |-> 0]
    /\ snapshot = NoState
    /\ event = [kind |-> "init"]
    /\ dispatched = 0

\* The position collections the account is constructed with: none, or a
\* long position in A and a short position in B carried from earlier days.
InitialPositions ==
    {[i \in {} |-> NewPosition],
     [i \in Instruments |->
        IF i = "A" THEN [NewPosition EXCEPT !.buy_old_quantity = MaxQuantity]
                   ELSE [NewPosition EXCEPT !.sell_old_quantity = MaxQuantity]]}

\* The side of the orders of an event-driven run: A is traded long (bought to
\* open, sold to close) and B short.
SideOf(order_book_id, position_effect) ==
    IF (order_book_id = "A") = (position_effect = "OPEN") THEN "BUY" ELSE "SELL"

Init ==
    /\ positions \in InitialPositions
    /\ InitRest
    /\ order_call = NoCall
    /\ order_ret = <<>>

\* The close an order asks for is covered by the position it closes.
Closable(ps, order_book_id, side, position_effect, quantity) ==
    Covered(ps, [order_book_id |-> order_book_id, side |-> side,
                 position_effect |-> position_effect, last_quantity |-> quantity])

\* ORDER_PENDING_NEW for a new order of this account: _on_order_pending_new
OnOrderPendingNew(id, order_book_id, quantity, side, position_effect) ==
    /\ CanDispatch
    /\ orders[id] = None
    /\ \A j \in OrderIds : j < id => orders[j] # None
    /\ order_book_id \notin de_listed
    /\ Closable(positions, order_book_id, side, position_effect, quantity)
    /\ LET o == [status |-> "ACTIVE", order_id |-> id, order_book_id |-> order_book_id,
                 quantity |-> quantity, filled_quantity |-> 0, side |-> side,
                 position_effect |-> position_effect]
       IN  /\ orders' = [orders EXCEPT ![id] = o]
           /\ frozen_cash' = on_order_pending_new(frozen_cash, o, margin_rate)
    /\ Dispatch([kind |-> "ORDER_PENDING_NEW", account |-> ThisAccount, order_id |-> id])
    /\ UNCHANGED <<positions, total_cash, backward_trade_set, oracle_vars, trades,
                   history_vars, snapshot, order_vars>>

OrderUpdateKinds ==
    {"ORDER_CREATION_REJECT", "ORDER_UNSOLICITED_UPDATE", "ORDER_CANCELLATION_PASS"}

\* ORDER_CREATION_REJECT / ORDER_UNSOLICITED_UPDATE / ORDER_CANCELLATION_PASS
\* for an order of this account: _on_order_unsolicited_update (lines 49-51)
OnOrderUnsolicitedUpdate(kind, id) ==
    /\ CanDispatch
    /\ is_active(orders[id])
    /\ frozen_cash' = on_order_unsolicited_update(frozen_cash, orders[id], margin_rate)
    /\ orders' = [orders EXCEPT ![id].status =
                    IF kind = "ORDER_CANCELLATION_PASS" THEN "CANCELLED" ELSE "REJECTED"]
    /\ Dispatch([kind |-> kind, account |-> ThisAccount, order_id |-> id])
    /\ UNCHANGED <<positions, total_cash, backward_trade_set, oracle_vars, trades,
                   history_vars, snapshot, order_vars>>

\* The broker fills an order and publishes TRADE with the order: _on_trade
OnTrade(id, exec_id, quantity) ==
    /\ CanDispatch
    /\ is_active(orders[id])
    /\ quantity \in 1..unfilled_quantity(orders[id])
    /\ trades[exec_id] = NoTrade
    /\ \A j \in ExecIds : j < exec_id => trades[j] # NoTrade
    /\ orders[id].order_book_id \notin de_listed
    /\ LET o == [orders[id] EXCEPT
                    !.filled_quantity = @ + quantity,
                    !.status = IF orders[id].filled_quantity + quantity = orders[id].quantity
                                 THEN "FILLED" ELSE "ACTIVE"]
           trade == [exec_id |-> exec_id, order_id |-> id,
                     order_book_id |-> o.order_book_id, side |-> o.side,
                     position_effect |-> o.position_effect,
                     last_quantity |-> quantity,
                     transaction_cost |-> CommissionPerLot * quantity]
       IN  /\ Covered(positions, trade)
           /\ orders' = [orders EXCEPT ![id] = o]
           /\ trades' = [trades EXCEPT ![exec_id] = trade]
           /\ SetAccount(apply_trade(Account, trade, o, margin_rate))
    /\ Dispatch([kind |-> "TRADE", account |-> ThisAccount, exec_id |-> exec_id,
                 with_order |-> TRUE, duplicate |-> FALSE])
    /\ UNCHANGED <<oracle_vars, snapshot, order_vars>>

\* A TRADE event delivered again, with or without its order: _on_trade
OnTradeAgain(exec_id, with_order) ==
    /\ CanDispatch
    /\ trades[exec_id] # NoTrade
    /\ exec_id \notin backward_trade_set => Covered(positions, trades[exec_id])
    /\ LET trade == trades[exec_id]
           o == IF with_order THEN orders[trade.order_id] ELSE None
       IN  SetAccount(apply_trade(Account, trade, o, margin_rate))
    /\ Dispatch([kind |-> "TRADE", account |-> ThisAccount, exec_id |-> exec_id,
                 with_order |-> with_order,
                 duplicate |-> exec_id \in backward_trade_set])
    /\ UNCHANGED <<oracle_vars, broker_vars, snapshot, order_vars>>

\* The orders of the other account, and a trade of such an order.
OtherOrders ==
    {[status |-> "ACTIVE", order_id |-> id, order_book_id |-> "A",
      quantity |-> MaxQuantity, filled_quantity |-> filled, side |-> "BUY",
      position_effect |-> "OPEN"] : id \in OrderIds, filled \in {0, 1}}

OtherTrade(o, exec_id) ==
    [exec_id |-> exec_id, order_id |-> o.order_id, order_book_id |-> o.order_book_id,
     side |-> o.side, position_effect |-> o.position_effect, last_quantity |-> 1,
     transaction_cost |-> CommissionPerLot]

\* TRADE, ORDER_PENDING_NEW, ORDER_CREATION_REJECT, ORDER_UNSOLICITED_UPDATE or
\* ORDER_CANCELLATION_PASS addressed to another account, carrying its order
\* and (TRADE) its trade: _on_trade, _on_order_pending_new,
\* _on_order_unsolicited_update
OnOtherAccountEvent(kind, o, exec_id) ==
    /\ CanDispatch
    /\ LET handled ==
               CASE kind = "TRADE" ->
                      apply_trade(Account, OtherTrade(o, exec_id), o, margin_rate)
                 [] kind = "ORDER_PENDING_NEW" ->
                      [Account EXCEPT !.frozen_cash =
                          on_order_pending_new(frozen_cash, o, margin_rate)]
                 [] kind \in OrderUpdateKinds ->
                      [Account EXCEPT !.frozen_cash =
                          on_order_unsolicited_update(frozen_cash, o, margin_rate)]
       IN  SetAccount(for_this_account(OtherAccount, Account, handled))
    /\ Dispatch([kind |-> kind, account |-> OtherAccount])
    /\ UNCHANGED <<oracle_vars, broker_vars, snapshot, order_vars>>

\* SETTLEMENT: _settlement; the instruments in `expired` are de-listed as of
\* this settlement date
OnSettlement(expired) ==
    /\ CanDispatch
    /\ de_listed' = de_listed \cup expired
    /\ SetAccount(settlement(Account, margin_rate, de_listed', forced_liquidation))
    /\ Dispatch([kind |-> "SETTLEMENT",
                 total_value |-> total_value(total_cash, positions, margin_rate),
                 before |-> DOMAIN positions])
    /\ UNCHANGED <<forced_liquidation, margin_rate, broker_vars, snapshot, order_vars>>

\* BAR / TICK with a new last price for one instrument: _update_last_price,
\* each position reading the last price of its instrument
OnUpdateLastPrice(order_book_id, gain) ==
    /\ CanDispatch
    /\ order_book_id \in DOMAIN positions
    /\ positions[order_book_id].price_gain # gain
    /\ positions' = [i \in DOMAIN positions |->
                        update_last_price(positions[i],
                            IF i = order_book_id THEN gain ELSE positions[i].price_gain)]
    /\ Dispatch([kind |-> "BAR"])
    /\ UNCHANGED <<total_cash, frozen_cash, backward_trade_set, oracle_vars,
                   broker_vars, history_vars, snapshot, order_vars>>

\* At most one instrument expires on a settlement date.
Expiries == {{}} \cup {{i} : i \in Instruments \ de_listed}

\* Every bucket of every position is non-negative.
NonNegative(ps) ==
    \A i \in DOMAIN ps :
        /\ ps[i].buy_old_quantity >= 0
        /\ ps[i].buy_today_quantity >= 0
        /\ ps[i].sell_old_quantity >= 0
        /\ ps[i].sell_today_quantity >= 0

\* The trades the broker has made, and the batches replayed from them.
Made == {e \in ExecIds : trades[e] # NoTrade}

Batches == UNION {[1..n -> Made] : n \in 0..MaxBatch}

\* account.fast_forward(orders, trades) with the broker's orders and a batch
\* of its trades
FastForward(batch) ==
    /\ CanDispatch
    /\ LET a == fast_forward(Account, orders, [k \in DOMAIN batch |-> trades[batch[k]]],
                             margin_rate)
       IN  /\ NonNegative(a.positions)
           /\ SetAccount(a)
    /\ Dispatch([kind |-> "fast_forward", batch |-> batch,
                 fresh |-> set_of(batch) \ backward_trade_set,
                 frozen_cash_before |-> frozen_cash,
                 again |-> event.kind = "fast_forward" /\ event.batch = batch])
    /\ UNCHANGED <<oracle_vars, broker_vars, snapshot, order_vars>>

\* account.get_state()
GetState ==
    /\ CanDispatch
    /\ snapshot' = get_state(Account, margin_rate)
    /\ Dispatch([kind |-> "get_state"])
    /\ UNCHANGED <<account_vars, oracle_vars, broker_vars, history_vars, order_vars>>

\* A state as written before position states recorded their margin rate.
without_margin_rate(state) ==
    [state EXCEPT !.positions =
        [i \in DOMAIN state.positions |->
            [buy_old_quantity |-> state.positions[i].buy_old_quantity,
             buy_today_quantity |-> state.positions[i].buy_today_quantity,
             sell_old_quantity |-> state.positions[i].sell_old_quantity,
             sell_today_quantity |-> state.positions[i].sell_today_quantity,
             price_gain |-> state.positions[i].price_gain]]]

\* account.set_state(state) with a state get_state() returned, its position
\* states recording the margin rate or not
SetState(recorded) ==
    /\ CanDispatch
    /\ snapshot # NoState
    /\ LET state == IF recorded THEN snapshot ELSE without_margin_rate(snapshot)
       IN  SetAccount(set_state(Account, state, margin_rate))
    /\ Dispatch([kind |-> "set_state", recorded |-> recorded])
    /\ UNCHANGED <<oracle_vars, broker_vars, snapshot, order_vars>>

\* The instrument oracle resolves a new margin rate for an instrument.
RateChange(order_book_id, rate) ==
    /\ CanDispatch
    /\ margin_rate[order_book_id] # rate
    /\ margin_rate' = [margin_rate EXCEPT ![order_book_id] = rate]
    /\ Dispatch([kind |-> "margin_rate"])
    /\ UNCHANGED <<account_vars, forced_liquidation, de_listed, broker_vars,
                   history_vars, snapshot, order_vars>>

Live ==
    \/ \E id \in OrderIds, i \in Instruments,
          pe \in {"OPEN", "CLOSE", "CLOSE_TODAY"} :
            OnOrderPendingNew(id, i, MaxQuantity, SideOf(i, pe), pe)
    \/ \E kind \in OrderUpdateKinds, id \in OrderIds :
            OnOrderUnsolicitedUpdate(kind, id)
    \/ \E id \in OrderIds, e \in ExecIds, q \in 1..MaxQuantity : OnTrade(id, e, q)
    \/ \E e \in ExecIds, with_order \in BOOLEAN : OnTradeAgain(e, with_order)
    \/ \E expired \in Expiries : OnSettlement(expired)
    \/ \E i \in Instruments, gain \in PriceMoves : OnUpdateLastPrice(i, gain)

Next ==
    \/ Live
    \/ \E batch \in Batches : FastForward(batch)

Spec == Init /\ [][Next]_vars

NextRecovery ==
    \/ Next
    \/ GetState
    \/ \E recorded \in BOOLEAN : SetState(recorded)
    \/ \E i \in Instruments, rate \in Rates : RateChange(i, rate)

SpecRecovery == Init /\ [][NextRecovery]_vars

\* ---------------------------------- specification: order lifecycles, live
\* The events of the orders' lifecycles: ORDER_PENDING_NEW once per order,
\* its fills (each possibly delivered again) and at most one reject, cancel
\* or unsolicited update.
NextLifecycle ==
    \/ \E id \in OrderIds, i \in Instruments,
          pe \in {"OPEN", "CLOSE", "CLOSE_TODAY"} :
            OnOrderPendingNew(id, i, MaxQuantity, SideOf(i, pe), pe)
    \/ \E kind \in OrderUpdateKinds, id \in OrderIds :
            OnOrderUnsolicitedUpdate(kind, id)
    \/ \E id \in OrderIds, e \in ExecIds, q \in 1..MaxQuantity : OnTrade(id, e, q)
    \/ \E e \in ExecIds, with_order \in BOOLEAN : OnTradeAgain(e, with_order)

SpecLifecycle == Init /\ [][NextLifecycle]_vars

\* ------------------------------ specification: events of another account
NextFilter ==
    \/ \E id \in OrderIds, i \in Instruments,
          pe \in {"OPEN", "CLOSE", "CLOSE_TODAY"} :
            OnOrderPendingNew(id, i, MaxQuantity, SideOf(i, pe), pe)
    \/ \E id \in OrderIds, e \in ExecIds, q \in 1..MaxQuantity : OnTrade(id, e, q)
    \/ \E kind \in {"TRADE", "ORDER_PENDING_NEW"} \cup OrderUpdateKinds,
          o \in OtherOrders, e \in ExecIds :
            OnOtherAccountEvent(kind, o, e)

SpecFilter == Init /\ [][NextFilter]_vars

\* ----------------------------------------- specification: an order update
\* The account after ORDER_PENDING_NEW for one order of `quantity` lots and,
\* when filled > 0, one TRADE of `filled` lots of it; a closing order finds
\* the lots it closes in the position.
AfterPartialFill(order_book_id, position_effect, quantity, filled) ==
    LET side == SideOf(order_book_id, position_effect)
        held == CASE position_effect = "OPEN" -> NewPosition
                  [] position_effect = "CLOSE" /\ side = "SELL" ->
                        [NewPosition EXCEPT !.buy_old_quantity = quantity]
                  [] position_effect = "CLOSE" /\ side = "BUY" ->
                        [NewPosition EXCEPT !.sell_old_quantity = quantity]
                  [] position_effect = "CLOSE_TODAY" /\ side = "SELL" ->
                        [NewPosition EXCEPT !.buy_today_quantity = quantity]
                  [] position_effect = "CLOSE_TODAY" /\ side = "BUY" ->
                        [NewPosition EXCEPT !.sell_today_quantity = quantity]
        o0 == [status |-> "ACTIVE", order_id |-> 1, order_book_id |-> order_book_id,
               quantity |-> quantity, filled_quantity |-> 0, side |-> side,
               position_effect |-> position_effect]
        o1 == [o0 EXCEPT !.filled_quantity = filled]
        trade == [exec_id |-> 1, order_id |-> 1, order_book_id |-> order_book_id,
                  side |-> side, position_effect |-> position_effect,
                  last_quantity |-> filled,
                  transaction_cost |-> CommissionPerLot * filled]
        rates == [i \in Instruments |-> 2]
        a0 == [positions |-> IF position_effect = "OPEN"
                               THEN [i \in {} |-> NewPosition]
                               ELSE [i \in {order_book_id} |-> held],
               total_cash |-> StartCash,
               frozen_cash |-> on_order_pending_new(0, o0, rates),
               backward_trade_set |-> {},
               applied |-> [e \in ExecIds |-> 0],
               period |-> [e \in ExecIds |-> 0]]
    IN  [account |-> IF filled > 0 THEN apply_trade(a0, trade, o1, rates) ELSE a0,
         order |-> o1,
         trade |-> IF filled > 0 THEN trade ELSE NoTrade]

InitUpdate ==
    \E order_book_id \in Instruments, pe \in {"OPEN", "CLOSE", "CLOSE_TODAY"},
       quantity \in 1..MaxOrderQuantity :
      \E filled \in 0..(quantity - 1) :
        LET s == AfterPartialFill(order_book_id, pe, quantity, filled)
        IN  /\ positions = s.account.positions
            /\ total_cash = s.account.total_cash
            /\ frozen_cash = s.account.frozen_cash
            /\ backward_trade_set = s.account.backward_trade_set
            /\ applied = s.account.applied
            /\ period = s.account.period
            /\ orders = [o \in OrderIds |-> IF o = 1 THEN s.order ELSE None]
            /\ trades = [e \in ExecIds |-> IF e = 1 THEN s.trade ELSE NoTrade]
            /\ forced_liquidation = TRUE
            /\ de_listed = {}
            /\ margin_rate = [i \in Instruments |-> 2]
            /\ snapshot = NoState
            /\ event = [kind |-> "init"]
            /\ dispatched = 0
            /\ order_call = NoCall
            /\ order_ret = <<>>

NextUpdate ==
    \E kind \in OrderUpdateKinds, id \in OrderIds : OnOrderUnsolicitedUpdate(kind, id)

SpecUpdate == InitUpdate /\ [][NextUpdate]_vars

\* ------------------------------------- specification: recovery by replay
\* What happened to an order before the recovery: its position effect, the
\* lots its one fill took (0: no fill) and whether it was cancelled after.
Lifecycles ==
    {lc \in [position_effect : {"OPEN", "CLOSE", "CLOSE_TODAY"},
              filled : {0, 1, MaxQuantity}, cancelled : BOOLEAN] :
        lc.filled = MaxQuantity => ~lc.cancelled}

\* The order the broker holds after the lifecycle lc, and the trade of its fill.
LifecycleOrder(id, lc) ==
    [status |-> IF lc.filled = MaxQuantity THEN "FILLED"
                ELSE IF lc.cancelled THEN "CANCELLED" ELSE "ACTIVE",
     order_id |-> id, order_book_id |-> "A", quantity |-> MaxQuantity,
     filled_quantity |-> lc.filled, side |-> SideOf("A", lc.position_effect),
     position_effect |-> lc.position_effect]

LifecycleTrade(id, lc) ==
    IF lc.filled > 0
      THEN [exec_id |-> id, order_id |-> id, order_book_id |-> "A",
            side |-> SideOf("A", lc.position_effect),
            position_effect |-> lc.position_effect, last_quantity |-> lc.filled,
            transaction_cost |-> CommissionPerLot * lc.filled]
      ELSE NoTrade

\* The live handlers on the events of one order, none missed:
\* ORDER_PENDING_NEW, the TRADE of its fill, ORDER_CANCELLATION_PASS.
live_order(a, o, trade, rates) ==
    LET pending == [o EXCEPT !.status = "ACTIVE", !.filled_quantity = 0]
        filled == [o EXCEPT !.status = IF o.filled_quantity = o.quantity
                                         THEN "FILLED" ELSE "ACTIVE"]
        a1 == [a EXCEPT !.frozen_cash = on_order_pending_new(a.frozen_cash, pending, rates)]
        a2 == IF trade # NoTrade THEN apply_trade(a1, trade, filled, rates) ELSE a1
    IN  IF o.status = "CANCELLED"
          THEN [a2 EXCEPT !.frozen_cash =
                   on_order_unsolicited_update(a2.frozen_cash, o, rates)]
          ELSE a2

RECURSIVE live(_, _, _, _, _)
\* The live handlers on the events of the orders 1..n, in this order.
live(a, order_map, trade_map, n, rates) ==
    IF n = 0 THEN a
    ELSE live_order(live(a, order_map, trade_map, n - 1, rates), order_map[n],
                    IF n \in DOMAIN trade_map THEN trade_map[n] ELSE NoTrade, rates)

\* The account as constructed, holding the positions ps.
NewAccount(ps) ==
    [positions |-> ps, total_cash |-> StartCash, frozen_cash |-> 0,
     backward_trade_set |-> {}, applied |-> [e \in ExecIds |-> 0],
     period |-> [e \in ExecIds |-> 0]]

\* A recovery: the broker holds the orders and trades of the whole history,
\* the account is restored from the snapshot taken after the events of the
\* first `taken` orders, and fast_forward is about to be called `calls` times.
Recovered(calls) ==
    \E lcs \in [OrderIds -> Lifecycles], taken \in 0..MaxOrders,
       held \in InitialPositions :
      LET rates == [i \in Instruments |-> 2]
          os == [id \in OrderIds |-> LifecycleOrder(id, lcs[id])]
          ts == [e \in ExecIds |->
                    IF e \in OrderIds THEN LifecycleTrade(e, lcs[e]) ELSE NoTrade]
          at(n) == live(NewAccount(held), os, ts, n, rates)
          restored == set_state(at(taken), get_state(at(taken), rates), rates)
      IN  /\ \A n \in 0..MaxOrders : NonNegative(at(n).positions)
          /\ \A id \in OrderIds :
                Closable(at(id - 1).positions, os[id].order_book_id, os[id].side,
                         os[id].position_effect, os[id].quantity)
          /\ \A id \in OrderIds : id \notin ExecIds => lcs[id].filled = 0
          /\ positions = restored.positions
          /\ total_cash = restored.total_cash
          /\ frozen_cash = restored.frozen_cash
          /\ backward_trade_set = restored.backward_trade_set
          /\ applied = restored.applied
          /\ period = restored.period
          /\ orders = os
          /\ trades = ts
          /\ forced_liquidation = TRUE
          /\ de_listed = {}
          /\ margin_rate = rates
          /\ snapshot = get_state(at(taken), rates)
          /\ event = [kind |-> "set_state"]
          /\ dispatched = MaxEvents - calls
          /\ order_call = NoCall
          /\ order_ret = <<>>

InitReplay == Recovered(1)

NextReplay == \E batch \in Batches : FastForward(batch)

SpecReplay == InitReplay /\ [][NextReplay]_vars

\* The same recovery with fast_forward called once more.
InitReplayAgain == Recovered(2)

SpecReplayAgain == InitReplayAgain /\ [][NextReplay]_vars

\* ------------------------------------------------- specification: order()
Buckets == 0..MaxBucket

InitOrder ==
    /\ positions \in
         {[i \in {} |-> NewPosition]} \cup
         {[i \in {"A"} |-> p] :
            p \in [buy_old_quantity : Buckets, buy_today_quantity : Buckets,
                   sell_old_quantity : Buckets, sell_today_quantity : Buckets,
                   price_gain : {0}]}
    /\ InitRest
    /\ order_call = NoCall
    /\ order_ret = <<>>

\* account.order(order_book_id, quantity, style, target)
OrderCall(order_book_id, quantity, style, target) ==
    /\ positions' = get_or_create(positions, order_book_id)
    /\ order_call' = [kind |-> "order", order_book_id |-> order_book_id,
                      quantity |-> quantity, style |-> style, target |-> target]
    /\ order_ret' = order(positions'[order_book_id], order_book_id,
                          quantity, style, target)
    /\ event' = [kind |-> "order"]
    /\ UNCHANGED <<total_cash, frozen_cash, backward_trade_set, oracle_vars,
                   broker_vars, history_vars, snapshot, dispatched>>

NextOrder ==
    \E quantity \in (-MaxDelta)..MaxDelta, target \in BOOLEAN :
        OrderCall("A", quantity, "MKT", target)

SpecOrder == InitOrder /\ [][NextOrder]_vars

\* ------------------------------------------------------ claims on order()
\* The position order() read in the last call, and the signed delta it was
\* asked for (the quantity itself, or target minus net position).
CalledPosition == positions[order_call.order_book_id]

CalledDelta ==
    IF order_call.target
      THEN order_call.quantity
             - (buy_quantity(CalledPosition) - sell_quantity(CalledPosition))
      ELSE order_call.quantity

\* The buckets a delta of this sign closes: the sell side when buying.
OppositeOld ==
    IF CalledDelta > 0 THEN CalledPosition.sell_old_quantity
                       ELSE CalledPosition.buy_old_quantity

OppositeToday ==
    IF CalledDelta > 0 THEN CalledPosition.sell_today_quantity
                       ELSE CalledPosition.buy_today_quantity

EffectRank(position_effect) ==
    CASE position_effect = "CLOSE" -> 1
      [] position_effect = "CLOSE_TODAY" -> 2
      [] position_effect = "OPEN" -> 3

\* Total quantity of the returned legs with this effect (0 when there is none).
LegQuantity(position_effect) ==
    LET idx == {i \in DOMAIN order_ret : order_ret[i].position_effect = position_effect}
        RECURSIVE Sum(_)
        Sum(S) == IF S = {} THEN 0
                  ELSE LET i == CHOOSE x \in S : TRUE
                       IN order_ret[i].quantity + Sum(S \ {i})
    IN  Sum(idx)

\* C1: for a nonzero delta the legs come in the order CLOSE, CLOSE_TODAY,
\* OPEN, each effect at most once; every leg is a BUY when the delta is
\* positive (closing the sell buckets) and a SELL when it is negative
\* (closing the buy buckets), and a close leg only targets a non-empty bucket.
C1_LegOrder ==
    (order_call.kind = "order" /\ CalledDelta # 0) =>
        /\ \A i, j \in DOMAIN order_ret :
              i < j => EffectRank(order_ret[i].position_effect)
                         < EffectRank(order_ret[j].position_effect)
        /\ \A i \in DOMAIN order_ret :
              /\ order_ret[i].side = (IF CalledDelta > 0 THEN "BUY" ELSE "SELL")
              /\ order_ret[i].order_book_id = order_call.order_book_id
              /\ order_ret[i].position_effect = "CLOSE" => OppositeOld > 0
              /\ order_ret[i].position_effect = "CLOSE_TODAY" => OppositeToday > 0

C1_Witness ==
    /\ order_call.kind = "order"
    /\ Len(order_ret) = 3
    /\ CalledDelta < 0
    /\ order_ret[1].position_effect = "CLOSE"
    /\ order_ret[3].position_effect = "OPEN"

\* C2: with a = |delta| the CLOSE leg carries min(a, old), the CLOSE_TODAY
\* leg min(a - old, today) (nothing once a <= old) and the OPEN leg
\* a - old - today; the legs sum to a, no close leg exceeds its bucket and
\* there is no OPEN leg when a <= old + today.  With buy-old 5, buy-today 3:
\* selling 6 gives [CLOSE 5, CLOSE_TODAY 1], selling 10 gives
\* [CLOSE 5, CLOSE_TODAY 3, OPEN 2].
C2_LegQuantities ==
    order_call.kind = "order" =>
      LET a == abs(CalledDelta)
          old == OppositeOld
          today == OppositeToday
          rest == IF a > old THEN a - old ELSE 0
          example ==
              /\ CalledPosition.buy_old_quantity = 5
              /\ CalledPosition.buy_today_quantity = 3
          leg(q, e) == order_req(order_call.order_book_id, q, "SELL", e,
                                 order_call.style)
      IN  /\ LegQuantity("CLOSE") = min(a, old)
          /\ LegQuantity("CLOSE_TODAY") = min(rest, today)
          /\ LegQuantity("OPEN") = (IF a > old + today THEN a - old - today ELSE 0)
          /\ LegQuantity("CLOSE") + LegQuantity("CLOSE_TODAY") + LegQuantity("OPEN") = a
          /\ LegQuantity("CLOSE") <= old
          /\ LegQuantity("CLOSE_TODAY") <= today
          /\ a <= old + today =>
                \A i \in DOMAIN order_ret : order_ret[i].position_effect # "OPEN"
          /\ (example /\ CalledDelta = -6) =>
                order_ret = <<leg(5, "CLOSE"), leg(1, "CLOSE_TODAY")>>
          /\ (example /\ CalledDelta = -10) =>
                order_ret = <<leg(5, "CLOSE"), leg(3, "CLOSE_TODAY"), leg(2, "OPEN")>>

C2_Witness ==
    /\ order_call.kind = "order"
    /\ ~order_call.target
    /\ order_call.quantity = -10
    /\ CalledPosition.buy_old_quantity = 5
    /\ CalledPosition.buy_today_quantity = 3
    /\ Len(order_ret) = 3

\* C3: a target-mode call order(id, T, style, target=True) returns the list
\* that order(id, T - (buy_quantity - sell_quantity), style, target=False)
\* returns on the same position.
C3_TargetEquivalence ==
    (order_call.kind = "order" /\ order_call.target) =>
        order_ret = order(CalledPosition, order_call.order_book_id,
                          order_call.quantity
                            - (buy_quantity(CalledPosition) - sell_quantity(CalledPosition)),
                          order_call.style, FALSE)

C3_Witness ==
    /\ order_call.kind = "order"
    /\ order_call.target
    /\ buy_quantity(CalledPosition) > 0
    /\ sell_quantity(CalledPosition) > 0
    /\ buy_quantity(CalledPosition) # sell_quantity(CalledPosition)
    /\ Len(order_ret) = 2

\* ------------------------------------------- claims on the event handlers
\* A step that dispatches an event or call of this kind.
Dispatched(kind) == dispatched' # dispatched /\ event'.kind = kind

\* C4: between two settlements, a TRADE event whose exec id is already in the
\* replay guard changes nothing: positions, total_cash, frozen_cash and the
\* guard stay as they were, also when the event carries the order.
C4_RedeliveryNoOp ==
    [][(Dispatched("TRADE") /\ event'.exec_id \in backward_trade_set)
          => UNCHANGED <<positions, total_cash, frozen_cash, backward_trade_set,
                         applied>>]_vars

C4_Witness ==
    /\ event.kind = "TRADE"
    /\ event.duplicate
    /\ event.with_order
    /\ applied[event.exec_id] = 1
    /\ frozen_cash > 0

\* C5 as claimed: over TRADE deliveries, fast_forward batches and SETTLEMENT
\* events every exec id reaches the ledger and total_cash at most once, also
\* when it is redelivered or replayed after a settlement.
C5_AppliedOnceEver == \A e \in ExecIds : applied[e] <= 1

\* C5 as amended: every exec id reaches the ledger and total_cash at most once
\* between two consecutive settlements; a settlement clears the guard, so a
\* trade applied before it is applied again when redelivered or replayed
\* after it.
C5_AppliedOncePerPeriod == \A e \in ExecIds : period[e] <= 1

C5_Witness ==
    \E e \in ExecIds :
        /\ applied[e] = 2
        /\ period[e] = 1
        /\ e \in backward_trade_set

\* The wipeout condition of a settlement taken in the current state.
Insolvent == total_value(total_cash, positions, margin_rate) <= 0

\* C6: when the insolvency wipeout does not fire, total_cash + margin +
\* holding_pnl right after a SETTLEMENT equals total_value right before it,
\* also when de-listed or flat positions are removed by the roll.
C6_Conservation ==
    [][(Dispatched("SETTLEMENT") /\ ~(Insolvent /\ forced_liquidation))
          => total_cash' + margin(positions', margin_rate') + holding_pnl(positions')
               = total_value(total_cash, positions, margin_rate)]_vars

C6_Witness ==
    /\ event.kind = "SETTLEMENT"
    /\ event.total_value > 0
    /\ event.before = Instruments
    /\ DOMAIN positions # event.before
    /\ DOMAIN positions # {}
    /\ total_cash # StartCash

\* The positions a settlement keeps: neither flat nor de-listed with
\* exposure, as of the settlement date.
Kept(delisted) ==
    {i \in DOMAIN positions :
        /\ buy_quantity(positions[i]) + sell_quantity(positions[i]) # 0
        /\ i \notin delisted}

\* C7: a SETTLEMENT with pre-roll total_value <= 0 and forced liquidation
\* enabled leaves no position and total_cash = 0; with total_value > 0 or
\* forced liquidation disabled there is no wipeout and the rolled positions
\* are retained.
C7_ForcedLiquidation ==
    [][Dispatched("SETTLEMENT")
          => IF Insolvent /\ forced_liquidation
               THEN DOMAIN positions' = {} /\ total_cash' = 0
               ELSE /\ DOMAIN positions' = Kept(de_listed')
                    /\ total_cash' = total_value(total_cash, positions, margin_rate)
                                       - margin(positions', margin_rate')
                                       - holding_pnl(positions')]_vars

C7_Witness ==
    /\ event.kind = "SETTLEMENT"
    /\ event.total_value <= 0
    /\ forced_liquidation
    /\ event.before # {}
    /\ DOMAIN positions = {}
    /\ total_cash = 0

\* C8: after every SETTLEMENT, whatever the sign of total_value, no position
\* is left on a de-listed instrument with exposure and none is flat; every
\* other position is rolled forward (today buckets moved into the old ones)
\* and, absent the wipeout, still present.
C8_SettlementRoll ==
    [][Dispatched("SETTLEMENT")
          => /\ \A i \in DOMAIN positions' :
                   /\ ~(i \in de_listed'
                        /\ buy_quantity(positions'[i]) + sell_quantity(positions'[i]) # 0)
                   /\ ~(buy_quantity(positions'[i]) = 0 /\ sell_quantity(positions'[i]) = 0)
                   /\ i \in Kept(de_listed')
                   /\ positions'[i].buy_old_quantity = buy_quantity(positions[i])
                   /\ positions'[i].sell_old_quantity = sell_quantity(positions[i])
                   /\ positions'[i].buy_today_quantity = 0
                   /\ positions'[i].sell_today_quantity = 0
             /\ ~(Insolvent /\ forced_liquidation)
                   => Kept(de_listed') \subseteq DOMAIN positions']_vars

C8_Witness ==
    /\ event.kind = "SETTLEMENT"
    /\ \E i \in DOMAIN positions, j \in event.before \ DOMAIN positions :
          /\ j \in de_listed
          /\ i \notin de_listed
          /\ positions[i].buy_old_quantity > MaxQuantity

\* C9: the replay guard is empty right after every SETTLEMENT, on every path
\* through it, and between settlements it holds exactly the exec ids of the
\* trades applied since the last settlement or restored by set_state.
C9_ReplayGuard ==
    /\ event.kind = "SETTLEMENT" => backward_trade_set = {}
    /\ backward_trade_set = {e \in ExecIds : period[e] >= 1}

C9_Witness ==
    /\ event.kind = "SETTLEMENT"
    /\ event.total_value <= 0
    /\ forced_liquidation
    /\ \E e \in ExecIds : applied[e] >= 1
    /\ backward_trade_set = {}

\* C10: an ORDER_CREATION_REJECT, ORDER_UNSOLICITED_UPDATE or
\* ORDER_CANCELLATION_PASS event lowers frozen_cash by
\* unfilled_quantity / quantity of the order's reservation when the order has
\* a nonzero filled quantity and by the whole reservation when it has none;
\* an order of 10 filled 4 has 6/10 of its reservation released.
C10_ProportionalRelease ==
    [][\A kind \in OrderUpdateKinds :
          Dispatched(kind) =>
            LET o == orders[event'.order_id]
                reservation == frozen_cash_of_order(o, margin_rate)
                released == frozen_cash - frozen_cash'
            IN  /\ o.filled_quantity # 0
                     => released * o.quantity = (o.quantity - o.filled_quantity) * reservation
                /\ o.filled_quantity = 0 => released = reservation
                /\ (o.quantity = 10 /\ o.filled_quantity = 4)
                     => released * 10 = 6 * reservation]_vars

C10_Witness ==
    /\ event.kind = "ORDER_CREATION_REJECT"
    /\ orders[event.order_id].quantity = 10
    /\ orders[event.order_id].filled_quantity = 4
    /\ orders[event.order_id].position_effect = "OPEN"
    /\ frozen_cash = 0

\* C11: a TRADE event of this account whose exec id is not in the replay
\* guard changes total_cash by the realized cash delta the position returns
\* minus the trade's transaction cost, applies the trade to the position and
\* records the exec id; with the order it lowers frozen_cash by
\* fill quantity / order quantity of the reservation when the fill quantity
\* differs from the order quantity and by the whole reservation otherwise;
\* without the order frozen_cash is unchanged.
C11_FirstTrade ==
    [][(Dispatched("TRADE") /\ event'.exec_id \notin backward_trade_set)
          => LET trade == trades'[event'.exec_id]
                 o == orders'[trade.order_id]
                 position == get_or_create(positions, trade.order_book_id)
                                [trade.order_book_id]
                 r == position_apply_trade(position, trade)
                 reservation == frozen_cash_of_order(o, margin_rate)
                 released == frozen_cash - frozen_cash'
             IN  /\ total_cash' = total_cash + r.delta_cash - trade.transaction_cost
                 /\ positions'[trade.order_book_id] = r.position
                 /\ backward_trade_set' = backward_trade_set \cup {trade.exec_id}
                 /\ (event'.with_order /\ trade.last_quantity # o.quantity)
                       => released * o.quantity = trade.last_quantity * reservation
                 /\ (event'.with_order /\ trade.last_quantity = o.quantity)
                       => released = reservation
                 /\ ~event'.with_order => released = 0]_vars

C11_Witness ==
    /\ event.kind = "TRADE"
    /\ ~event.duplicate
    /\ event.with_order
    /\ trades[event.exec_id].position_effect = "CLOSE"
    /\ trades[event.exec_id].last_quantity < orders[trades[event.exec_id].order_id].quantity
    /\ positions[trades[event.exec_id].order_book_id].price_gain # 0
    /\ frozen_cash > 0

\* ------------------------------------------------- claims on the recovery
\* The trades handed to the fast_forward call of this step.
ReplayedTrades == [k \in DOMAIN event'.batch |-> trades[event'.batch[k]]]

\* C12: fast_forward applies each trade of the batch that is not in the
\* replay guard exactly once, every OPEN one before any CLOSE or CLOSE_TODAY
\* one whatever the arrival order; when the closes are covered by the
\* buckets they take from plus the opens of the batch (no bucket is negative
\* once the batch is replayed), no bucket is negative after any single
\* application either.
C12_OpensBeforeCloses ==
    [][Dispatched("fast_forward")
          => \A steps \in {fast_forward_steps(Account, ReplayedTrades, margin_rate)} :
             \A AppliedAt \in
                   {[k \in DOMAIN steps |->
                       {e \in ExecIds :
                           steps[k].applied[e]
                             > (IF k = 1 THEN applied ELSE steps[k - 1].applied)[e]}]} :
               LET Closes(k) == {e \in AppliedAt[k] : trades[e].position_effect # "OPEN"}
                   Opens(k) == {e \in AppliedAt[k] : trades[e].position_effect = "OPEN"}
               IN  /\ \A j, k \in DOMAIN steps : (j < k /\ Closes(j) # {}) => Opens(k) = {}
                   /\ \A e \in event'.fresh :
                         Cardinality({k \in DOMAIN steps : e \in AppliedAt[k]}) = 1
                   /\ \A k \in DOMAIN steps : AppliedAt[k] \subseteq event'.fresh
                   /\ steps # <<>> => steps[Len(steps)].positions = positions'
                   /\ NonNegative(positions')
                         => \A k \in DOMAIN steps : NonNegative(steps[k].positions)]_vars

C12_Witness ==
    /\ event.kind = "fast_forward"
    /\ \E j, k \in DOMAIN event.batch :
          /\ j < k
          /\ {event.batch[j], event.batch[k]} \subseteq event.fresh
          /\ trades[event.batch[j]].position_effect = "CLOSE_TODAY"
          /\ trades[event.batch[k]].position_effect = "OPEN"
    /\ positions["A"].buy_today_quantity = 0

\* C13: after fast_forward(orders, trades) frozen_cash is the sum, over the
\* orders that are active, of the margin requirement (for an opening order)
\* plus the estimated transaction cost, whatever frozen_cash was before and
\* whether or not there are trades; an order that is not active adds nothing.
C13_FrozenCashRecomputed ==
    [][Dispatched("fast_forward")
          => frozen_cash' =
               SumF([id \in OrderIds |->
                       IF orders[id].status = "ACTIVE"
                         THEN (IF orders[id].position_effect = "OPEN"
                                 THEN orders[id].quantity * ContractMultiplier * FrozenPrice
                                        * margin_rate[orders[id].order_book_id]
                                        * MarginMultiplier
                                 ELSE 0)
                              + CommissionPerLot * orders[id].quantity
                         ELSE 0])]_vars

C13_Witness ==
    /\ event.kind = "fast_forward"
    /\ event.batch = <<>>
    /\ event.frozen_cash_before # frozen_cash
    /\ frozen_cash > 0
    /\ \E id \in OrderIds : orders[id].status = "CANCELLED"
    /\ \E id \in OrderIds : orders[id].status = "ACTIVE"

\* C14: with no settlement in between, a fast_forward call applies each exec
\* id of its batch that is not in the replay guard once, also when the batch
\* holds it twice, and leaves every exec id of the batch in the guard; a call
\* whose exec ids are all in the guard already (restored by set_state or
\* recorded by an earlier call) leaves positions, total_cash and the guard
\* as they were, and a call following a fast_forward call with the same
\* arguments leaves frozen_cash as it was too.
C14_ReplayIdempotent ==
    [][Dispatched("fast_forward")
          => LET ids == set_of(event'.batch)
             IN  /\ ids \subseteq backward_trade_set'
                 /\ \A e \in ExecIds :
                       applied'[e] = applied[e]
                                       + (IF e \in ids \ backward_trade_set THEN 1 ELSE 0)
                 /\ ids \subseteq backward_trade_set
                       => UNCHANGED <<positions, total_cash, backward_trade_set>>
                 /\ event'.again => UNCHANGED account_vars]_vars

C14_Witness ==
    /\ event.kind = "fast_forward"
    /\ event.again
    /\ \E j, k \in DOMAIN event.batch : j # k /\ event.batch[j] = event.batch[k]
    /\ \E e \in set_of(event.batch) : trades[e].position_effect # "OPEN"
    /\ \E e \in set_of(event.batch) : applied[e] = 1 /\ e \in backward_trade_set

\* C20: the frozen_cash fast_forward computes from the active orders equals
\* the frozen_cash the live handlers hold after the pending-new, trade and
\* cancel events of the same orders with no event missed, also when an
\* active order is partially filled.
C20_ReplayAgreesWithLive ==
    event.kind = "fast_forward"
        => frozen_cash = live(NewAccount([i \in {} |-> NewPosition]), orders, trades,
                              MaxOrders, margin_rate).frozen_cash

\* C15: a TRADE, ORDER_PENDING_NEW, ORDER_CREATION_REJECT,
\* ORDER_UNSOLICITED_UPDATE or ORDER_CANCELLATION_PASS event whose account is
\* not this account leaves positions, total_cash, frozen_cash and the replay
\* guard as they were (and the handler returns normally: the step exists).
C15_OtherAccountIgnored ==
    [][\A kind \in {"TRADE", "ORDER_PENDING_NEW"} \cup OrderUpdateKinds :
          (Dispatched(kind) /\ event'.account # ThisAccount)
              => UNCHANGED <<positions, total_cash, frozen_cash, backward_trade_set,
                             applied>>]_vars

C15_Witness ==
    /\ event.kind = "TRADE"
    /\ event.account = OtherAccount
    /\ frozen_cash > 0
    /\ backward_trade_set # {}
    /\ DOMAIN positions # {}

\* ------------------------------------------- claims on export and restore
\* The bucket quantities and pnl baseline a position state records.
Recorded(v) ==
    [buy_old_quantity |-> v.buy_old_quantity,
     buy_today_quantity |-> v.buy_today_quantity,
     sell_old_quantity |-> v.sell_old_quantity,
     sell_today_quantity |-> v.sell_today_quantity,
     price_gain |-> v.price_gain]

\* The resolved margin rates are the ones the snapshot records.
RatesAsRecorded ==
    \A i \in DOMAIN snapshot.positions :
        snapshot.positions[i].margin_rate = margin_rate[i]

\* C16: get_state() records every position, frozen_cash, total_cash and the
\* ids of the replay guard of the account and changes none of them; while the
\* resolved margin rates equal the recorded ones, set_state of that state
\* makes positions, frozen_cash, total_cash and the guard equal to the
\* recorded ones, whatever positions and guard entries the account held.
C16_RoundTrip ==
    [][/\ Dispatched("get_state")
            => /\ DOMAIN snapshot'.positions = DOMAIN positions
               /\ \A i \in DOMAIN positions : Recorded(snapshot'.positions[i]) = positions[i]
               /\ snapshot'.frozen_cash = frozen_cash
               /\ snapshot'.total_cash = total_cash
               /\ set_of(snapshot'.backward_trade_set) = backward_trade_set
               /\ UNCHANGED account_vars
       /\ (Dispatched("set_state") /\ event'.recorded /\ RatesAsRecorded)
            => /\ DOMAIN positions' = DOMAIN snapshot.positions
               /\ \A i \in DOMAIN positions' : positions'[i] = Recorded(snapshot.positions[i])
               /\ frozen_cash' = snapshot.frozen_cash
               /\ total_cash' = snapshot.total_cash
               /\ backward_trade_set' = set_of(snapshot.backward_trade_set)]_vars

C16_Witness ==
    /\ event.kind = "set_state"
    /\ event.recorded
    /\ RatesAsRecorded
    /\ DOMAIN positions = {}
    /\ frozen_cash = 0
    /\ \E e \in ExecIds : applied[e] = 1 /\ e \notin backward_trade_set

\* The positions of the snapshot whose recorded margin rate differs from the
\* resolved one by more than the tolerance.
Rerated ==
    {i \in DOMAIN snapshot.positions :
        abs(snapshot.positions[i].margin_rate - margin_rate[i]) > RateTolerance}

\* The margin of a recorded position at a margin rate.
MarginAt(v, rate) ==
    (v.buy_old_quantity + v.buy_today_quantity + v.sell_old_quantity
       + v.sell_today_quantity) * ContractMultiplier * FrozenPrice * rate * MarginMultiplier

\* C18: set_state of a state that records margin rates makes total_cash the
\* recorded total_cash plus, summed over the positions whose recorded rate
\* differs from the resolved one by more than the tolerance,
\* margin at the resolved rate x (recorded rate - resolved rate) / resolved
\* rate, so that total_cash plus the margin of these positions equals the
\* recorded total_cash plus their margin at the recorded rate (and, when no
\* other position's rate moved, total_cash + margin of the account does);
\* when no rate differs by more than the tolerance, or the state records no
\* rate, total_cash is the recorded total_cash.
C18_MarginRateChange ==
    [][Dispatched("set_state")
          => IF event'.recorded
               THEN /\ total_cash' =
                         snapshot.total_cash
                           + SumF([i \in Rerated |->
                                     (MarginAt(snapshot.positions[i], margin_rate[i])
                                        * (snapshot.positions[i].margin_rate - margin_rate[i]))
                                       \div margin_rate[i]])
                    /\ total_cash'
                         + SumF([i \in Rerated |->
                                   MarginAt(snapshot.positions[i], margin_rate[i])])
                         = snapshot.total_cash
                             + SumF([i \in Rerated |->
                                       MarginAt(snapshot.positions[i],
                                                snapshot.positions[i].margin_rate)])
                    /\ (\A i \in DOMAIN snapshot.positions \ Rerated :
                            snapshot.positions[i].margin_rate = margin_rate[i])
                         => total_cash' + margin(positions', margin_rate')
                              = snapshot.total_cash
                                  + SumF([i \in DOMAIN snapshot.positions |->
                                            MarginAt(snapshot.positions[i],
                                                     snapshot.positions[i].margin_rate)])
                    /\ Rerated = {} => total_cash' = snapshot.total_cash
               ELSE total_cash' = snapshot.total_cash]_vars

C18_Witness ==
    /\ event.kind = "set_state"
    /\ event.recorded
    /\ \E i \in Rerated : MarginAt(snapshot.positions[i], margin_rate[i]) > 0
    /\ total_cash # snapshot.total_cash

\* C17: every child order order() returns has a strictly positive quantity,
\* and for a delta of zero (a quantity of zero, or a target equal to the net
\* position) the returned list is empty, whatever the position holds.
C17_NoEmptyLeg ==
    order_call.kind = "order"
        => /\ \A i \in DOMAIN order_ret : order_ret[i].quantity > 0
           /\ CalledDelta = 0 => order_ret = <<>>

\* ------------------------------------------------ claims on frozen cash
\* The orders delivered so far that are still active.
ActiveOrders == {id \in OrderIds : orders[id].status = "ACTIVE"}

\* C19: while only the events of well-formed order lifecycles are dispatched
\* (ORDER_PENDING_NEW once per order, fills totalling at most the order
\* quantity, each possibly redelivered, then at most one reject, cancel or
\* unsolicited update) and the reservation of an order stays the same,
\* frozen_cash is never negative, is the sum over the active orders of
\* unfilled quantity / quantity of the order's reservation, and is zero once
\* no order is active.
C19_FrozenCashTracksOrders ==
    /\ frozen_cash >= 0
    /\ \A id \in ActiveOrders :
          ((orders[id].quantity - orders[id].filled_quantity)
              * frozen_cash_of_order(orders[id], margin_rate)) % orders[id].quantity = 0
    /\ frozen_cash =
          SumF([id \in ActiveOrders |->
                  ((orders[id].quantity - orders[id].filled_quantity)
                      * frozen_cash_of_order(orders[id], margin_rate))
                    \div orders[id].quantity])
    /\ ActiveOrders = {} => frozen_cash = 0

C19_Witness ==
    /\ event.kind = "TRADE"
    /\ event.duplicate
    /\ event.with_order
    /\ frozen_cash = 0
    /\ \E id \in OrderIds :
          /\ orders[id].status = "FILLED"
          /\ orders[id].position_effect = "OPEN"
          /\ \E e \in ExecIds :
                /\ trades[e] # NoTrade
                /\ trades[e].order_id = id
                /\ trades[e].last_quantity < orders[id].quantity
====
